---- MODULE Spec2Model ----
(***************************************************************************)
(* Model of find_top_drawdown_intervals (Quotes_Max_Drawdown.py).          *)
(*                                                                         *)
(* The price series `data` is a sequence of closing prices; the DataFrame  *)
(* index (the dates) is unique and increasing, so a date is identified     *)
(* with its 0-based position in the series.  Python positions are kept     *)
(* 0-based: Close(i) is data['Close'].iloc[i].                             *)
(*                                                                         *)
(* drawdown_rate = (end_price / start_price - 1) * 100 is kept as an exact *)
(* fraction num/den with den > 0.  The prices and thresholds used here are *)
(* powers of two and multiples of 25, for which the float64 computation of *)
(* the script is exact, so comparisons agree with the script's.            *)
(*                                                                         *)
(* The four module-level configuration values are read by the function at  *)
(* call time; a caller may change MIN_DRAWDOWN_RATE between two calls      *)
(* (action Recall), the previous call's outcome is remembered in `prev`.   *)
(***************************************************************************)
EXTENDS Integers, Sequences, FiniteSets

\* ---- bounds of the model -------------------------------------------------
MaxLen == 4
MaxDays == 2
MaxTopN == 2

Prices == {-2, 1, 2, 4}
Thresholds == {0, 50, 75}

SeriesSet == UNION {[1..n -> Prices] : n \in 1..MaxLen}

VARIABLES data, MIN_DRAWDOWN_RATE, MIN_DAYS, MAX_DAYS, TOP_N,
          pc, start_idx, days, drawdown_intervals, used_dates,
          selected_intervals, pos, prev

vars == <<data, MIN_DRAWDOWN_RATE, MIN_DAYS, MAX_DAYS, TOP_N,
          pc, start_idx, days, drawdown_intervals, used_dates,
          selected_intervals, pos, prev>>

config == <<data, MIN_DAYS, MAX_DAYS, TOP_N>>

\* ---- helpers -------------------------------------------------------------
Range(s) == {s[i] : i \in 1..Len(s)}

\* data['Close'].iloc[i]
Close(i) == data[i + 1]

\* (end_price / start_price - 1) * 100 as a fraction with positive denominator
DrawdownRate(start_price, end_price) ==
    IF start_price > 0
    THEN [num |-> (end_price - start_price) * 100, den |-> start_price]
    ELSE [num |-> (start_price - end_price) * 100, den |-> 0 - start_price]

\* r1 <= r2 on fractions with positive denominators
RateLE(r1, r2) == r1.num * r2.den <= r2.num * r1.den

RateEQ(r1, r2) == r1.num * r2.den = r2.num * r1.den

\* variant: window end taken one position short
EndIdx_OffByOne(s, d) == s + d - 1

\* end_idx = start_idx + days
EndIdx(s, d) == s + d

\* variant: slice without the "+ 1", the end date is left out
CurrentDates_HalfOpen(s, e) == s..(e - 1)

\* set(data.index[start_idx:end_idx + 1])
CurrentDates(s, e) == s..e

\* variant: strict comparison
Qualifies_Strict(rate, min_rate) == rate.num < (0 - min_rate) * rate.den

\* variant: the comparison is turned round
Qualifies_Reversed(rate, min_rate) == rate.num >= (0 - min_rate) * rate.den

\* drawdown_rate <= -MIN_DRAWDOWN_RATE
Qualifies(rate, min_rate) == rate.num <= (0 - min_rate) * rate.den

\* the dict appended to drawdown_intervals
Interval(s, d) ==
    LET e == EndIdx(s, d) IN
    [start_date |-> s, end_date |-> e, days |-> d,
     drawdown_rate |-> DrawdownRate(Close(s), Close(e)),
     start_price |-> Close(s), end_price |-> Close(e),
     dates |-> CurrentDates(s, e)]

\* list.sort(key=drawdown_rate): stable, ascending
RECURSIVE InsertByRate(_, _)
InsertByRate(sorted, x) ==
    IF sorted = <<>> THEN <<x>>
    ELSE IF RateLE(sorted[Len(sorted)].drawdown_rate, x.drawdown_rate)
         THEN Append(sorted, x)
         ELSE Append(InsertByRate(SubSeq(sorted, 1, Len(sorted) - 1), x),
                     sorted[Len(sorted)])

RECURSIVE SortPrefix(_, _)
SortPrefix(s, k) ==
    IF k = 0 THEN <<>> ELSE InsertByRate(SortPrefix(s, k - 1), s[k])

\* variant: the sort is left out
SortByRate_None(s) == s

\* variant: sort(reverse=True)
RECURSIVE InsertByRateDesc(_, _)
InsertByRateDesc(sorted, x) ==
    IF sorted = <<>> THEN <<x>>
    ELSE IF RateLE(x.drawdown_rate, sorted[Len(sorted)].drawdown_rate)
         THEN Append(sorted, x)
         ELSE Append(InsertByRateDesc(SubSeq(sorted, 1, Len(sorted) - 1), x),
                     sorted[Len(sorted)])

RECURSIVE SortPrefixDesc(_, _)
SortPrefixDesc(s, k) ==
    IF k = 0 THEN <<>> ELSE InsertByRateDesc(SortPrefixDesc(s, k - 1), s[k])

SortByRate_Desc(s) == SortPrefixDesc(s, Len(s))

\* variant: an ascending sort that is not stable (equal keys end up reversed)
RECURSIVE InsertByRateUnstable(_, _)
InsertByRateUnstable(sorted, x) ==
    IF sorted = <<>> THEN <<x>>
    ELSE IF ~RateLE(x.drawdown_rate, sorted[Len(sorted)].drawdown_rate)
         THEN Append(sorted, x)
         ELSE Append(InsertByRateUnstable(SubSeq(sorted, 1, Len(sorted) - 1), x),
                     sorted[Len(sorted)])

RECURSIVE SortPrefixUnstable(_, _)
SortPrefixUnstable(s, k) ==
    IF k = 0 THEN <<>>
    ELSE InsertByRateUnstable(SortPrefixUnstable(s, k - 1), s[k])

SortByRate_Unstable(s) == SortPrefixUnstable(s, Len(s))

SortByRate(s) == SortPrefix(s, Len(s))

\* variant: ">" instead of ">="
TopNReached_Late(sel, top_n) == Len(sel) > top_n

\* len(selected_intervals) >= TOP_N
TopNReached(sel, top_n) == Len(sel) >= top_n

\* variant: only a candidate lying inside a selected interval is rejected
IsOverlap_Nested(current_dates, sel) ==
    \E i \in 1..Len(sel) : current_dates \subseteq sel[i].dates

\* the inner loop over selected_intervals: is_overlap
IsOverlap(current_dates, sel) ==
    \E i \in 1..Len(sel) : current_dates \cap sel[i].dates # {}

NoPrev == [valid |-> FALSE, rate |-> 0, cands |-> {}, result |-> <<>>]

\* ---- initial state: entry of the first call ------------------------------
Init ==
    /\ data \in SeriesSet
    /\ MIN_DRAWDOWN_RATE \in Thresholds
    /\ MIN_DAYS \in 1..MaxDays
    /\ MAX_DAYS \in 1..MaxDays
    /\ TOP_N \in 0..MaxTopN
    /\ pc = "scan"
    /\ start_idx = 0
    /\ days = MIN_DAYS
    /\ drawdown_intervals = <<>>
    /\ used_dates = {}
    /\ selected_intervals = <<>>
    /\ pos = 1
    /\ prev = NoPrev

\* ---- scan loop, lines 78-105 ---------------------------------------------
\* one iteration of the inner loop whose window lies inside the series
ScanWindow ==
    /\ pc = "scan"
    /\ start_idx < Len(data)
    /\ days <= MAX_DAYS
    /\ EndIdx(start_idx, days) < Len(data)
    /\ LET end_idx == EndIdx(start_idx, days)
           current_dates == CurrentDates(start_idx, end_idx)
           cand == Interval(start_idx, days)
       IN drawdown_intervals' =
            IF current_dates \cap used_dates # {}
            THEN drawdown_intervals
            ELSE IF Qualifies(cand.drawdown_rate, MIN_DRAWDOWN_RATE)
                 THEN Append(drawdown_intervals, cand)
                 ELSE drawdown_intervals
    /\ days' = days + 1
    /\ UNCHANGED <<config, MIN_DRAWDOWN_RATE, pc, start_idx, used_dates,
                   selected_intervals, pos, prev>>

\* the inner loop ends (range exhausted, or break on end_idx >= len(data))
ScanNextStart ==
    /\ pc = "scan"
    /\ start_idx < Len(data)
    /\ \/ days > MAX_DAYS
       \/ EndIdx(start_idx, days) >= Len(data)
    /\ start_idx' = start_idx + 1
    /\ days' = MIN_DAYS
    /\ UNCHANGED <<config, MIN_DRAWDOWN_RATE, pc, drawdown_intervals,
                   used_dates, selected_intervals, pos, prev>>

\* the outer loop ends; line 108 sorts, line 111 starts the selection
SortIntervals ==
    /\ pc = "scan"
    /\ start_idx >= Len(data)
    /\ drawdown_intervals' = SortByRate(drawdown_intervals)
    /\ selected_intervals' = <<>>
    /\ pos' = 1
    /\ pc' = "select"
    /\ UNCHANGED <<config, MIN_DRAWDOWN_RATE, start_idx, days, used_dates, prev>>

\* ---- selection loop, lines 112-126 ---------------------------------------
SelectStep ==
    /\ pc = "select"
    /\ pos <= Len(drawdown_intervals)
    /\ ~TopNReached(selected_intervals, TOP_N)
    /\ LET interval == drawdown_intervals[pos]
           current_dates == interval.dates
       IN IF IsOverlap(current_dates, selected_intervals)
          THEN UNCHANGED <<selected_intervals, used_dates>>
          ELSE /\ selected_intervals' = Append(selected_intervals, interval)
               /\ used_dates' = used_dates \cup current_dates
    /\ pos' = pos + 1
    /\ UNCHANGED <<config, MIN_DRAWDOWN_RATE, pc, start_idx, days,
                   drawdown_intervals, prev>>

\* the loop ends (candidates exhausted, or break at TOP_N); line 128 returns
Return ==
    /\ pc = "select"
    /\ \/ pos > Len(drawdown_intervals)
       \/ TopNReached(selected_intervals, TOP_N)
    /\ pc' = "done"
    /\ UNCHANGED <<config, MIN_DRAWDOWN_RATE, start_idx, days,
                   drawdown_intervals, used_dates, selected_intervals, pos, prev>>

\* ---- the caller overrides MIN_DRAWDOWN_RATE and calls again --------------
Recall ==
    /\ pc = "done"
    /\ prev' = [valid |-> TRUE, rate |-> MIN_DRAWDOWN_RATE,
                cands |-> Range(drawdown_intervals),
                result |-> selected_intervals]
    /\ MIN_DRAWDOWN_RATE' \in Thresholds
    /\ pc' = "scan"
    /\ start_idx' = 0
    /\ days' = MIN_DAYS
    /\ drawdown_intervals' = <<>>
    /\ used_dates' = {}
    /\ selected_intervals' = <<>>
    /\ pos' = 1
    /\ UNCHANGED config

Next ==
    \/ ScanWindow
    \/ ScanNextStart
    \/ SortIntervals
    \/ SelectStep
    \/ Return
    \/ Recall

Spec == Init /\ [][Next]_vars

\* ==== properties ==========================================================
\* the dates from an interval's start index to its end index, inclusive
DateSet(iv) == iv.start_date..iv.end_date

IsPrefix(a, b) == Len(a) <= Len(b) /\ SubSeq(b, 1, Len(a)) = a

\* (end_price / start_price - 1) * 100 <= -t, written without division
DeclineAtLeast(sp, ep, t) ==
    IF sp > 0 THEN (ep - sp) * 100 <= (0 - t) * sp
              ELSE (ep - sp) * 100 >= (0 - t) * sp

\* candidates visited by the selection loop and not accepted
Rejected == {k \in 1..(pos - 1) : drawdown_intervals[k] \notin Range(selected_intervals)}

\* C1: at every step, any two distinct intervals of the selected list have
\* disjoint date sets (all series dates from start index to end index).
C1_Disjoint ==
    \A i, j \in 1..Len(selected_intervals) :
        i # j => DateSet(selected_intervals[i]) \cap DateSet(selected_intervals[j]) = {}

C1_Witness ==
    /\ pc = "done"
    /\ Len(selected_intervals) >= 2
    /\ Rejected # {}

\* C2: every returned interval meets the threshold and the length bounds,
\* days = end - start, 0 <= start < end < n, and its rate is the one computed
\* from the closing prices at exactly these two indices.
C2_ThresholdRespect ==
    pc = "done" =>
        \A i \in 1..Len(selected_intervals) :
            LET iv == selected_intervals[i]
                r == iv.drawdown_rate
            IN /\ r.den > 0
               /\ r.num <= (0 - MIN_DRAWDOWN_RATE) * r.den
               /\ MIN_DAYS <= iv.days /\ iv.days <= MAX_DAYS
               /\ iv.days = iv.end_date - iv.start_date
               /\ 0 <= iv.start_date /\ iv.start_date < iv.end_date
               /\ iv.end_date < Len(data)
               /\ iv.start_price = Close(iv.start_date)
               /\ iv.end_price = Close(iv.end_date)
               /\ r.num * iv.start_price = (iv.end_price - iv.start_price) * 100 * r.den

C2_Witness ==
    /\ pc = "done"
    /\ MIN_DRAWDOWN_RATE > 0
    /\ \E i \in 1..Len(selected_intervals) :
          /\ selected_intervals[i].days = MAX_DAYS
          /\ MIN_DAYS < MAX_DAYS

\* C3: the returned list is ascending in drawdown_rate (most severe first).
C3_Sorted ==
    pc = "done" =>
        \A i \in 1..(Len(selected_intervals) - 1) :
            selected_intervals[i].drawdown_rate.num * selected_intervals[i + 1].drawdown_rate.den
              <= selected_intervals[i + 1].drawdown_rate.num * selected_intervals[i].drawdown_rate.den

C3_Witness ==
    /\ pc = "done"
    /\ Len(selected_intervals) >= 2
    /\ ~RateEQ(selected_intervals[1].drawdown_rate, selected_intervals[2].drawdown_rate)
    /\ selected_intervals[1].start_date > selected_intervals[2].start_date

\* C4: for a positive TOP_N the result has at most TOP_N intervals and at most
\* as many as there are candidates; it is empty when no window qualifies, in
\* particular when the series has fewer than MIN_DAYS + 1 points.
C4_Bounded ==
    (pc = "done" /\ TOP_N > 0) =>
        /\ Len(selected_intervals) <= TOP_N
        /\ Len(selected_intervals) <= Len(drawdown_intervals)
        /\ (drawdown_intervals = <<>> => selected_intervals = <<>>)
        /\ (Len(data) < MIN_DAYS + 1 => selected_intervals = <<>>)

C4_Witness ==
    /\ pc = "done"
    /\ TOP_N > 0
    /\ Len(selected_intervals) = TOP_N
    /\ \E k \in pos..Len(drawdown_intervals) :
          \A i \in 1..Len(selected_intervals) :
              DateSet(drawdown_intervals[k]) \cap DateSet(selected_intervals[i]) = {}

\* C5: the scan emits exactly one candidate per visited window (start, d) with
\* MIN_DAYS <= d <= MAX_DAYS, start + d < n and rate <= -MIN_DRAWDOWN_RATE, and
\* nothing else; used_dates is empty during the scan, so no window is skipped.
QualifyingWindows ==
    {w \in (0..(Len(data) - 1)) \X (MIN_DAYS..MAX_DAYS) :
        /\ w[1] + w[2] < Len(data)
        /\ DeclineAtLeast(Close(w[1]), Close(w[1] + w[2]), MIN_DRAWDOWN_RATE)}

Visited(w) ==
    \/ pc # "scan"
    \/ w[1] < start_idx
    \/ (w[1] = start_idx /\ w[2] < days)

InvalidInput ==
    \/ MIN_DAYS > MAX_DAYS
    \/ TOP_N <= 0
    \/ \E i \in 1..Len(data) : data[i] < 0

C6_FailFast == InvalidInput => pc # "done"

\* C7: for a fixed series, MIN_DAYS and MAX_DAYS, the candidates emitted with a
\* threshold t2 >= t1 are a subset of those emitted with t1, so raising the
\* threshold never increases the number of candidates.
C7_Monotone ==
    (pc # "scan" /\ prev.valid) =>
        /\ MIN_DRAWDOWN_RATE >= prev.rate =>
              /\ Range(drawdown_intervals) \subseteq prev.cands
              /\ Len(drawdown_intervals) <= Cardinality(prev.cands)
        /\ MIN_DRAWDOWN_RATE <= prev.rate =>
              /\ prev.cands \subseteq Range(drawdown_intervals)
              /\ Cardinality(prev.cands) <= Len(drawdown_intervals)

C7_Witness ==
    /\ pc = "done"
    /\ prev.valid
    /\ MIN_DRAWDOWN_RATE > prev.rate
    /\ drawdown_intervals # <<>>
    /\ Range(drawdown_intervals) # prev.cands

\* C8: the selection loop visits the candidates in ascending drawdown_rate
\* order; a visited candidate is appended exactly when fewer than TOP_N are
\* accepted and it intersects no accepted interval, otherwise the list is left
\* as it is; nothing accepted is removed or moved; with TOP_N >= 1 and at
\* least one candidate the first output has the minimum drawdown_rate.
C8_Ascending ==
    pc \in {"select", "done"} =>
        \A i \in 1..(Len(drawdown_intervals) - 1) :
            drawdown_intervals[i].drawdown_rate.num * drawdown_intervals[i + 1].drawdown_rate.den
              <= drawdown_intervals[i + 1].drawdown_rate.num * drawdown_intervals[i].drawdown_rate.den

C8_FirstIsMin ==
    (pc = "done" /\ TOP_N >= 1 /\ drawdown_intervals # <<>>) =>
        /\ selected_intervals # <<>>
        /\ \A c \in Range(drawdown_intervals) :
              selected_intervals[1].drawdown_rate.num * c.drawdown_rate.den
                <= c.drawdown_rate.num * selected_intervals[1].drawdown_rate.den

C8_Step ==
    /\ pc = "select" =>
          /\ IsPrefix(selected_intervals, selected_intervals')
          /\ drawdown_intervals' = drawdown_intervals
    /\ (pc = "select" /\ pc' = "select") =>
          LET c == drawdown_intervals[pos]
              accept == /\ Len(selected_intervals) < TOP_N
                        /\ \A i \in 1..Len(selected_intervals) :
                              DateSet(c) \cap DateSet(selected_intervals[i]) = {}
          IN /\ pos' = pos + 1
             /\ selected_intervals' =
                  IF accept THEN Append(selected_intervals, c)
                            ELSE selected_intervals
    /\ (pc = "select" /\ pc' = "done") =>
          \/ pos > Len(drawdown_intervals)
          \/ Len(selected_intervals) >= TOP_N

C8_Greedy == [][C8_Step /\ C8_Ascending' /\ C8_FirstIsMin']_vars

C8_Witness ==
    /\ pc = "done"
    /\ Len(selected_intervals) = 2
    /\ \E k \in Rejected :
          /\ k < pos - 1
          /\ ~RateEQ(drawdown_intervals[k].drawdown_rate,
                     selected_intervals[2].drawdown_rate)

\* C9: date sets are closed ranges (start and end date both included), so two
\* candidates sharing only a boundary date are never both in the result.
C9_ClosedRanges ==
    /\ \A iv \in Range(drawdown_intervals) \cup Range(selected_intervals) :
          /\ iv.start_date \in iv.dates
          /\ iv.end_date \in iv.dates
          /\ iv.dates = iv.start_date..iv.end_date
    /\ \A i, j \in 1..Len(selected_intervals) :
          i # j => selected_intervals[i].end_date # selected_intervals[j].start_date

C9_Witness ==
    /\ pc = "done"
    /\ \E k \in Rejected : \E i \in 1..Len(selected_intervals) :
          /\ drawdown_intervals[k].dates \cap used_dates
               = {drawdown_intervals[k].start_date}
          /\ selected_intervals[i].end_date = drawdown_intervals[k].start_date

\* C10: for a fixed series, MIN_DAYS, MAX_DAYS and TOP_N, the result for a
\* threshold t2 >= t1 is a prefix of the result for t1; candidates with equal
\* drawdown_rate stay in scan order (smaller start first, then shorter window).
C10_Prefix ==
    /\ (pc = "done" /\ prev.valid) =>
          /\ MIN_DRAWDOWN_RATE >= prev.rate => IsPrefix(selected_intervals, prev.result)
          /\ MIN_DRAWDOWN_RATE <= prev.rate => IsPrefix(prev.result, selected_intervals)
    /\ pc \in {"select", "done"} =>
          \A i, j \in 1..Len(drawdown_intervals) :
              (i < j /\ RateEQ(drawdown_intervals[i].drawdown_rate,
                               drawdown_intervals[j].drawdown_rate)) =>
                  \/ drawdown_intervals[i].start_date < drawdown_intervals[j].start_date
                  \/ /\ drawdown_intervals[i].start_date = drawdown_intervals[j].start_date
                     /\ drawdown_intervals[i].days < drawdown_intervals[j].days

C10_Witness ==
    /\ pc = "done"
    /\ prev.valid
    /\ MIN_DRAWDOWN_RATE > prev.rate
    /\ Len(selected_intervals) >= 1
    /\ Len(selected_intervals) < Len(prev.result)
    /\ \E i, j \in 1..Len(drawdown_intervals) :
          /\ i < j
          /\ RateEQ(drawdown_intervals[i].drawdown_rate,
                    drawdown_intervals[j].drawdown_rate)

====
